---- MODULE Spec2Model ----
(***************************************************************************)
(* A model of bvhio's Joint (src/bvhio/lib/hierarchy/Joint.py): a node of  *)
(* a joint hierarchy holding a rest pose, a sorted list of keyframes and   *)
(* the current local position, rotation and scale.                         *)
(*                                                                         *)
(* Numbers are exact rationals <<n, d>> (d > 0, lowest terms); a division  *)
(* by zero gives <<0, 0>>, which every later operation propagates (the     *)
(* non-finite floats of the program).  Floating-point rounding is not      *)
(* modelled.  Vectors are triples, quaternions are <<w, x, y, z>>.         *)
(*                                                                         *)
(* The Pose objects of the rest poses live on a heap (poses) and are       *)
(* addressed by reference, so that two names for one object can be told    *)
(* from two equal objects.  The poses stored in a keyframe list are held   *)
(* by value: every pose handed to insertKeyframePose is taken to be an     *)
(* object of its own that the caller does not keep.                        *)
(***************************************************************************)
EXTENDS Integers, Sequences, FiniteSets, TLC

\* ------------------------------------------------------------ numbers

Abs(n) == IF n < 0 THEN -n ELSE n

RECURSIVE Gcd(_, _)
Gcd(a, b) == IF b = 0 THEN a ELSE Gcd(b, a % b)

RNorm(n, d) ==
    IF d = 0 THEN <<0, 0>>
    ELSE LET g == Gcd(Abs(n), Abs(d))
             s == IF d < 0 THEN -1 ELSE 1
         IN  <<(s * n) \div g, (s * d) \div g>>

R(n) == <<n, 1>>
RAdd(x, y) ==
    IF x[2] = 1 /\ y[2] = 1 THEN <<x[1] + y[1], 1>>
    ELSE RNorm(x[1] * y[2] + y[1] * x[2], x[2] * y[2])
RNeg(x) == <<-x[1], x[2]>>
RSub(x, y) ==
    IF x[2] = 1 /\ y[2] = 1 THEN <<x[1] - y[1], 1>>
    ELSE RNorm(x[1] * y[2] - y[1] * x[2], x[2] * y[2])
RMul(x, y) ==
    IF x[2] = 1 /\ y[2] = 1 THEN <<x[1] * y[1], 1>>
    ELSE RNorm(x[1] * y[1], x[2] * y[2])
RDiv(x, y) ==
    IF y = <<1, 1>> THEN x ELSE RNorm(x[1] * y[2], x[2] * y[1])

\* ------------------------------------------------------------ vectors

V3(a, b, c) == <<R(a), R(b), R(c)>>
VAdd(u, v) == <<RAdd(u[1], v[1]), RAdd(u[2], v[2]), RAdd(u[3], v[3])>>
VSub(u, v) == <<RSub(u[1], v[1]), RSub(u[2], v[2]), RSub(u[3], v[3])>>
\* glm's vec3 * vec3 and vec3 / vec3 are component-wise
VMul(u, v) == <<RMul(u[1], v[1]), RMul(u[2], v[2]), RMul(u[3], v[3])>>
VDiv(u, v) == <<RDiv(u[1], v[1]), RDiv(u[2], v[2]), RDiv(u[3], v[3])>>
VScale(a, v) == <<RMul(a, v[1]), RMul(a, v[2]), RMul(a, v[3])>>

\* ------------------------------------------------------------ quaternions

Q4(w, x, y, z) == <<R(w), R(x), R(y), R(z)>>

\* glm's quat * quat: the Hamilton product p * q
QMul(p, q) ==
    <<RSub(RSub(RSub(RMul(p[1], q[1]), RMul(p[2], q[2])), RMul(p[3], q[3])), RMul(p[4], q[4])),
      RSub(RAdd(RAdd(RMul(p[1], q[2]), RMul(p[2], q[1])), RMul(p[3], q[4])), RMul(p[4], q[3])),
      RSub(RAdd(RAdd(RMul(p[1], q[3]), RMul(p[3], q[1])), RMul(p[4], q[2])), RMul(p[2], q[4])),
      RSub(RAdd(RAdd(RMul(p[1], q[4]), RMul(p[4], q[1])), RMul(p[2], q[3])), RMul(p[3], q[2]))>>

QDot(p, q) ==
    RAdd(RAdd(RMul(p[1], q[1]), RMul(p[2], q[2])), RAdd(RMul(p[3], q[3]), RMul(p[4], q[4])))

\* glm.inverse(quat): conjugate(q) / dot(q, q)
QInverse(q) ==
    LET n == QDot(q, q)
    IN  <<RDiv(q[1], n), RDiv(RNeg(q[2]), n), RDiv(RNeg(q[3]), n), RDiv(RNeg(q[4]), n)>>

\* ------------------------------------------------------------ matrices

\* glm.mat3_cast(quat), as rows
Mat3Cast(q) ==
    LET w == q[1]  x == q[2]  y == q[3]  z == q[4]
        two(a) == RMul(R(2), a)
        one(a) == RSub(R(1), RMul(R(2), a))
    IN  << <<one(RAdd(RMul(y, y), RMul(z, z))), two(RSub(RMul(x, y), RMul(w, z))), two(RAdd(RMul(x, z), RMul(w, y)))>>,
           <<two(RAdd(RMul(x, y), RMul(w, z))), one(RAdd(RMul(x, x), RMul(z, z))), two(RSub(RMul(y, z), RMul(w, x)))>>,
           <<two(RSub(RMul(x, z), RMul(w, y))), two(RAdd(RMul(y, z), RMul(w, x))), one(RAdd(RMul(x, x), RMul(y, y)))>> >>

MatVec(m, v) ==
    <<RAdd(RAdd(RMul(m[1][1], v[1]), RMul(m[1][2], v[2])), RMul(m[1][3], v[3])),
      RAdd(RAdd(RMul(m[2][1], v[1]), RMul(m[2][2], v[2])), RMul(m[2][3], v[3])),
      RAdd(RAdd(RMul(m[3][1], v[1]), RMul(m[3][2], v[2])), RMul(m[3][3], v[3]))>>

\* glm.inverse of a 3x3 matrix: adjugate / determinant
MatInverse(m) ==
    LET c(i, j, k, l) == RSub(RMul(m[i][j], m[k][l]), RMul(m[i][l], m[k][j]))
        c11 == c(2, 2, 3, 3)  c12 == c(2, 3, 3, 1)  c13 == c(2, 1, 3, 2)
        det == RAdd(RAdd(RMul(m[1][1], c11), RMul(m[1][2], c12)), RMul(m[1][3], c13))
        d(a) == RDiv(a, det)
    IN  << <<d(c11), d(c(1, 3, 3, 2)), d(c(1, 2, 2, 3))>>,
           <<d(c12), d(c(1, 1, 3, 3)), d(c(1, 3, 2, 1))>>,
           <<d(c13), d(c(1, 2, 3, 1)), d(c(1, 1, 2, 2))>> >>

\* Pose.Space / Transform.Space applied to a point: T * R * S, the point taken
\* with w = 1
SpaceApply(pos, rot, scl, p) == VAdd(pos, MatVec(Mat3Cast(rot), VMul(scl, p)))

\* Pose.SpaceInverse / Transform.SpaceInverse applied to a point
SpaceInverseApply(pos, rot, scl, p) ==
    VDiv(MatVec(MatInverse(Mat3Cast(rot)), VSub(p, pos)), scl)

\* ------------------------------------------------------------ poses

\* Pose(position, rotation, scale)
Pose(position, rotation, scale) ==
    [Position |-> position, Rotation |-> rotation, Scale |-> scale]

\* Pose(): no translation, the identity rotation, unit scale
DefaultPose == Pose(V3(0, 0, 0), Q4(1, 0, 0, 0), V3(1, 1, 1))

\* glm.lerp(x, y, a) on vectors: x * (1 - a) + y * a
VLerp(u, v, a) == VAdd(VScale(RSub(R(1), a), u), VScale(a, v))

\* glm.lerp(x, y, a) on quaternions: x * (1 - a) + y * a
QLerp(p, q, a) ==
    LET c(i) == RAdd(RMul(RSub(R(1), a), p[i]), RMul(a, q[i]))
    IN  <<c(1), c(2), c(3), c(4)>>

\* ------------------------------------------------------------ keyframe lists
\* A keyframe list is a sequence of <<frame, pose>>.

Max(a, b) == IF a >= b THEN a ELSE b
Min(a, b) == IF a <= b THEN a ELSE b

\* bisect.bisect_left([key[0] for key in keys], frame): binary search for the
\* first place (counted from 0) whose key is not below frame
RECURSIVE BisectLeftFrom(_, _, _, _)
BisectLeftFrom(keys, frame, lo, hi) ==
    IF lo >= hi THEN lo
    ELSE LET mid == (lo + hi) \div 2
         IN  IF keys[mid + 1][1] < frame
             THEN BisectLeftFrom(keys, frame, mid + 1, hi)
             ELSE BisectLeftFrom(keys, frame, lo, mid)

BisectLeft(keys, frame) == BisectLeftFrom(keys, frame, 0, Len(keys))

\* bisect.insort(keys, (frame, pose)): binary search for the place after the
\* last entry that is not above the new one, and insertion there.  Tuples are
\* compared by frame; two tuples with one frame would be compared by pose,
\* which insertKeyframePose rules out before it calls insort.
RECURSIVE BisectRightFrom(_, _, _, _)
BisectRightFrom(keys, frame, lo, hi) ==
    IF lo >= hi THEN lo
    ELSE LET mid == (lo + hi) \div 2
         IN  IF frame < keys[mid + 1][1]
             THEN BisectRightFrom(keys, frame, lo, mid)
             ELSE BisectRightFrom(keys, frame, mid + 1, hi)

\* (a variant of Insort: the new entry goes to the end of the list)
InsortAtEnd(keys, frame, pose) == Append(keys, <<frame, pose>>)

Insort(keys, frame, pose) ==
    LET at == BisectRightFrom(keys, frame, 0, Len(keys))
    IN  SubSeq(keys, 1, at) \o << <<frame, pose>> >> \o SubSeq(keys, at + 1, Len(keys))

\* list.pop(index), index counted from 0
Pop(keys, index) == SubSeq(keys, 1, index) \o SubSeq(keys, index + 2, Len(keys))

\* getKeyframeRange(includeChildren=False): (first, last) of the joint's own
\* list, (0, 0) when it is empty
LocalKeyframeRange(keys) ==
    IF Len(keys) = 0 THEN <<0, 0>> ELSE <<keys[1][1], keys[Len(keys)][1]>>

\* The frame a negative argument stands for (the first statement of
\* insertKeyframePose, the second of getKeyframePose)
ResolveFrame(keys, frame) ==
    IF frame < 0 THEN Max(0, LocalKeyframeRange(keys)[2] + 1 - frame) ELSE frame

\* The methods of the keyframe store, as functions of the joint's own list.

\* getKeyframePose(frame) on a joint's list: the pose it returns (a new object)
getKeyframePose(keys, frame) ==
    IF Len(keys) = 0 THEN DefaultPose
    ELSE LET f == ResolveFrame(keys, frame)
             index == BisectLeft(keys, f)
         IN  IF index = Len(keys) THEN keys[Len(keys)][2]
             ELSE IF keys[index + 1][1] = f THEN keys[index + 1][2]
             ELSE IF index = 0 THEN keys[Len(keys)][2]
             ELSE LET before == keys[index]
                      after == keys[index + 1]
                      weight == RDiv(R(before[1] + f), R(after[1]))
                  IN  Pose(VLerp(before[2].Position, after[2].Position, weight),
                           QLerp(before[2].Rotation, after[2].Rotation, weight),
                           VLerp(before[2].Scale, after[2].Scale, weight))

\* (a variant of insertKeyframePose: a keyframe already at the frame is kept)
insertKeyframePoseKeepsOld(keys, frame, pose) ==
    LET f == ResolveFrame(keys, frame)
        index == BisectLeft(keys, f)
    IN  IF index = Len(keys) \/ keys[index + 1][1] # f
        THEN Insort(keys, f, pose)
        ELSE keys

\* insertKeyframePose(frame, pose) on a joint's list: the list afterwards
insertKeyframePose(keys, frame, pose) ==
    LET f == ResolveFrame(keys, frame)
        index == BisectLeft(keys, f)
    IN  IF index = Len(keys) \/ keys[index + 1][1] # f
        THEN Insort(keys, f, pose)
        ELSE [keys EXCEPT ![index + 1] = <<f, pose>>]

\* (a variant of removeKeyframeLocal: pop() without the index, the last entry goes)
removeKeyframeLocalLast(keys, frame) ==
    LET index == BisectLeft(keys, frame)
    IN  IF index # Len(keys) /\ keys[index + 1][1] = frame
        THEN Pop(keys, Len(keys) - 1)
        ELSE keys

\* removeKeyframe(frame), the part on the joint's own list: the list afterwards
removeKeyframeLocal(keys, frame) ==
    LET index == BisectLeft(keys, frame)
    IN  IF index # Len(keys) /\ keys[index + 1][1] = frame
        THEN Pop(keys, index)
        ELSE keys

\* ------------------------------------------------------------ state

Joints == {1, 2, 3}
NoJoint == 0

\* The references of the Pose objects on the heap
Refs == 1..6
NoRef == 0
NoPose == [Position |-> <<>>, Rotation |-> <<>>, Scale |-> <<>>]

VARIABLES
    Parent,        \* Joint._Parent: the joint's parent, NoJoint at a root
    Position,      \* Transform.Position of each joint (current local property)
    Rotation,      \* Transform.Rotation of each joint
    Scale,         \* Transform.Scale of each joint
    RestPose,      \* Joint._RestPose: a reference to a Pose object
    poses,         \* the Pose objects: the pose at each reference, or NoPose
    callerPoses,   \* the references of the Pose objects the caller made and holds
    Keyframes,     \* Joint._Keyframes: each joint's list of <<frame, pose>>
    CurrentFrame,  \* Joint._CurrentFrame
    retPose,       \* what the last getKeyframePose call returned
    retRange,      \* what the last getKeyframeRange call returned
    hist,          \* the last calls, oldest first, each with the state it began in
    steps          \* the number of calls made

vars == <<Parent, Position, Rotation, Scale, RestPose, poses, callerPoses,
          Keyframes, CurrentFrame, retPose, retRange, hist, steps>>

\* The joints' state as one value, the argument and result of the methods below
State ==
    [Position |-> Position, Rotation |-> Rotation, Scale |-> Scale,
     RestPose |-> RestPose, poses |-> poses, callerPoses |-> callerPoses,
     Keyframes |-> Keyframes, CurrentFrame |-> CurrentFrame]

\* The state becomes s
Becomes(s) ==
    /\ Position' = s.Position
    /\ Rotation' = s.Rotation
    /\ Scale' = s.Scale
    /\ RestPose' = s.RestPose
    /\ poses' = s.poses
    /\ callerPoses' = s.callerPoses
    /\ Keyframes' = s.Keyframes
    /\ CurrentFrame' = s.CurrentFrame

\* Joint.Children, in the order of the joints' numbers
RECURSIVE ChildrenFrom(_, _)
ChildrenFrom(j, c) ==
    IF c \notin Joints THEN <<>>
    ELSE (IF Parent[c] = j THEN <<c>> ELSE <<>>) \o ChildrenFrom(j, c + 1)

Children(j) == ChildrenFrom(j, 1)

\* The Pose object a joint's RestPose refers to
Rest(s, j) == s.poses[s.RestPose[j]]

\* A reference no Pose object has yet: unreferenced objects are collected
Referenced(s) == {s.RestPose[j] : j \in Joints} \cup s.callerPoses
Collect(s) ==
    [s EXCEPT !.poses = [r \in Refs |-> IF r \in Referenced(s) THEN s.poses[r] ELSE NoPose]]
FreeRef(s) == CHOOSE r \in Refs : s.poses[r] = NoPose /\ \A q \in Refs : q < r => s.poses[q] # NoPose

\* ------------------------------------------------------------ methods

\* Joint.__init__(restPose=ref), ref = NoRef for None: the rest pose is a new
\* Pose() or the object given; no keyframes; CurrentFrame -1.  The transform
\* starts at position, rotation and scale.
JointInit(s, j, position, rotation, scale, ref) ==
    LET r == IF ref = NoRef THEN FreeRef(s) ELSE ref
    IN  [s EXCEPT !.Position[j] = position, !.Rotation[j] = rotation, !.Scale[j] = scale,
                  !.poses[r] = IF ref = NoRef THEN DefaultPose ELSE @,
                  !.RestPose[j] = r,
                  !.Keyframes[j] = <<>>,
                  !.CurrentFrame[j] = -1]

\* The RestPose setter: the joint keeps a duplicate of the pose given
SetRestPose(s, j, ref) ==
    LET r == FreeRef(s)
    IN  Collect([s EXCEPT !.poses[r] = s.poses[ref], !.RestPose[j] = r])

\* removeKeyframe(frame, recursive)
RECURSIVE removeKeyframe(_, _, _, _), removeKeyframeEach(_, _, _)
removeKeyframe(s, j, frame, recursive) ==
    LET s1 == [s EXCEPT !.Keyframes[j] = removeKeyframeLocal(@, frame)]
    IN  IF recursive THEN removeKeyframeEach(s1, Children(j), frame) ELSE s1
removeKeyframeEach(s, cs, frame) ==
    IF cs = <<>> THEN s
    ELSE removeKeyframeEach(removeKeyframe(s, Head(cs), frame, TRUE), Tail(cs), frame)

\* loadKeyframe(frame, recursive)
RECURSIVE loadKeyframe(_, _, _, _), loadKeyframeEach(_, _, _)
loadKeyframe(s, j, frame, recursive) ==
    LET key == getKeyframePose(s.Keyframes[j], frame)
        s1 == [s EXCEPT !.Position[j] = key.Position,
                        !.Rotation[j] = key.Rotation,
                        !.Scale[j] = key.Scale]
    IN  IF recursive THEN loadKeyframeEach(s1, Children(j), frame) ELSE s1
loadKeyframeEach(s, cs, frame) ==
    IF cs = <<>> THEN s
    ELSE loadKeyframeEach(loadKeyframe(s, Head(cs), frame, TRUE), Tail(cs), frame)

\* writeKeyframe(frame, recursive)
RECURSIVE writeKeyframe(_, _, _, _), writeKeyframeEach(_, _, _)
writeKeyframe(s, j, frame, recursive) ==
    LET s1 == [s EXCEPT !.Keyframes[j] =
                   insertKeyframePose(@, frame, Pose(s.Position[j], s.Rotation[j], s.Scale[j]))]
    IN  IF recursive THEN writeKeyframeEach(s1, Children(j), frame) ELSE s1
writeKeyframeEach(s, cs, frame) ==
    IF cs = <<>> THEN s
    ELSE writeKeyframeEach(writeKeyframe(s, Head(cs), frame, TRUE), Tail(cs), frame)

\* loadRestPose(recursive)
RECURSIVE loadRestPose(_, _, _), loadRestPoseEach(_, _)
loadRestPose(s, j, recursive) ==
    LET s1 == [s EXCEPT !.Position[j] = Rest(s, j).Position,
                        !.Rotation[j] = Rest(s, j).Rotation,
                        !.Scale[j] = Rest(s, j).Scale]
    IN  IF recursive THEN loadRestPoseEach(s1, Children(j)) ELSE s1
loadRestPoseEach(s, cs) ==
    IF cs = <<>> THEN s
    ELSE loadRestPoseEach(loadRestPose(s, Head(cs), TRUE), Tail(cs))

\* writeRestPose: what the loop over the keyframes makes of one key; keep is
\* the set of the names in the keep list (empty for None and for [])
RebaseKey(s, j, keep, key) ==
    LET rest == Rest(s, j)
    IN  Pose(IF "position" \in keep
             THEN SpaceInverseApply(s.Position[j], s.Rotation[j], s.Scale[j],
                      SpaceApply(rest.Position, rest.Rotation, rest.Scale, key.Position))
             ELSE key.Position,
             IF "rotation" \in keep
             THEN QMul(QMul(rest.Rotation, QInverse(s.Rotation[j])), key.Rotation)
             ELSE key.Rotation,
             IF "scale" \in keep
             THEN VMul(VDiv(rest.Scale, s.Scale[j]), key.Scale)
             ELSE key.Scale)

\* writeRestPose(recursive, keep)
RECURSIVE writeRestPose(_, _, _, _), writeRestPoseEach(_, _, _)
writeRestPose(s, j, recursive, keep) ==
    LET keys == [i \in 1..Len(s.Keyframes[j]) |->
                   <<s.Keyframes[j][i][1], RebaseKey(s, j, keep, s.Keyframes[j][i][2])>>]
        s1 == [s EXCEPT !.Keyframes[j] = IF keep # {} THEN keys ELSE @,
                        !.poses[s.RestPose[j]] = Pose(s.Position[j], s.Rotation[j], s.Scale[j])]
    IN  IF recursive THEN writeRestPoseEach(s1, Children(j), keep) ELSE s1
writeRestPoseEach(s, cs, keep) ==
    IF cs = <<>> THEN s
    ELSE writeRestPoseEach(writeRestPose(s, Head(cs), TRUE, keep), Tail(cs), keep)

\* loadPose(frame, recursive)
RECURSIVE loadPose(_, _, _, _), loadPoseEach(_, _, _)
loadPose(s, j, frame, recursive) ==
    LET key == getKeyframePose(s.Keyframes[j], frame)
        rest == Rest(s, j)
        s1 == [s EXCEPT !.CurrentFrame[j] = frame,
                        !.Position[j] = SpaceApply(rest.Position, rest.Rotation, rest.Scale, key.Position),
                        !.Rotation[j] = QMul(rest.Rotation, key.Rotation),
                        !.Scale[j] = VMul(rest.Scale, key.Scale)]
    IN  IF recursive THEN loadPoseEach(s1, Children(j), frame) ELSE s1
loadPoseEach(s, cs, frame) ==
    IF cs = <<>> THEN s
    ELSE loadPoseEach(loadPose(s, Head(cs), frame, TRUE), Tail(cs), frame)

\* (a variant of NewKey: the rotations multiplied in the other order)
NewKeySwapped(s, j) ==
    LET rest == Rest(s, j)
    IN  Pose(SpaceInverseApply(rest.Position, rest.Rotation, rest.Scale, s.Position[j]),
             QMul(s.Rotation[j], QInverse(rest.Rotation)),
             VDiv(s.Scale[j], rest.Scale))

\* writePose: newKey, the difference of the joint's properties to its rest pose
NewKey(s, j) ==
    LET rest == Rest(s, j)
    IN  Pose(SpaceInverseApply(rest.Position, rest.Rotation, rest.Scale, s.Position[j]),
             QMul(QInverse(rest.Rotation), s.Rotation[j]),
             VDiv(s.Scale[j], rest.Scale))

\* writePose(frameId, recursive)
RECURSIVE writePose(_, _, _, _), writePoseEach(_, _, _)
writePose(s, j, frameId, recursive) ==
    LET s1 == [s EXCEPT !.Keyframes[j] = insertKeyframePose(@, frameId, NewKey(s, j))]
    IN  IF recursive THEN writePoseEach(s1, Children(j), frameId) ELSE s1
writePoseEach(s, cs, frameId) ==
    IF cs = <<>> THEN s
    ELSE writePoseEach(writePose(s, Head(cs), frameId, TRUE), Tail(cs), frameId)

\* getKeyframeRange(includeChildren)
RECURSIVE getKeyframeRange(_, _, _), getKeyframeRangeEach(_, _, _)
getKeyframeRange(s, j, includeChildren) ==
    IF Len(s.Keyframes[j]) = 0 THEN <<0, 0>>
    ELSE LET range == LocalKeyframeRange(s.Keyframes[j])
         IN  IF includeChildren THEN getKeyframeRangeEach(s, Children(j), range) ELSE range
getKeyframeRangeEach(s, cs, range) ==
    IF cs = <<>> THEN range
    ELSE LET childRange == getKeyframeRange(s, Head(cs), TRUE)
         IN  getKeyframeRangeEach(s, Tail(cs),
                 <<Min(range[1], childRange[1]), Max(range[2], childRange[2])>>)

\* applyPosition(position, recursive=False), which Joint hands to Transform:
\* the position becomes (0, 0, 0), or moves by the position given, and the
\* children's positions follow so that they stay where they are in the parent's
\* space.  NoVec stands for None.
NoVec == <<>>
applyPosition(s, j, position) ==
    LET new == IF position = NoVec THEN V3(0, 0, 0) ELSE VAdd(s.Position[j], position)
    IN  [s EXCEPT !.Position =
            [c \in Joints |->
                IF c = j THEN new
                ELSE IF Parent[c] = j
                THEN SpaceInverseApply(new, s.Rotation[j], s.Scale[j],
                         SpaceApply(s.Position[j], s.Rotation[j], s.Scale[j], s.Position[c]))
                ELSE s.Position[c]]]

\* for child in self.Children: child.loadRestPose(recursive=False)
RECURSIVE loadRestPoseChildren(_, _)
loadRestPoseChildren(s, cs) ==
    IF cs = <<>> THEN s
    ELSE loadRestPoseChildren(loadRestPose(s, Head(cs), FALSE), Tail(cs))

\* for child in self.Children: child.writeRestPose(recursive=False, keep=None)
RECURSIVE writeRestPoseChildren(_, _)
writeRestPoseChildren(s, cs) ==
    IF cs = <<>> THEN s
    ELSE writeRestPoseChildren(writeRestPose(s, Head(cs), FALSE, {}), Tail(cs))

\* applyRestposePosition(position, recursive)
RECURSIVE applyRestposePosition(_, _, _, _), applyRestposePositionEach(_, _, _)
applyRestposePosition(s, j, position, recursive) ==
    LET s1 == loadRestPoseChildren(loadRestPose(s, j, FALSE), Children(j))
        s2 == applyPosition(s1, j, position)
        s3 == writeRestPoseChildren(writeRestPose(s2, j, FALSE, {}), Children(j))
    IN  IF recursive THEN applyRestposePositionEach(s3, Children(j), position) ELSE s3
applyRestposePositionEach(s, cs, position) ==
    IF cs = <<>> THEN s
    ELSE applyRestposePositionEach(applyRestposePosition(s, Head(cs), position, TRUE),
                                   Tail(cs), position)

\* ------------------------------------------------------------ calls

\* The bounds of a run: how many calls it makes at most
MaxSteps == 2
MaxOps == 3

\* A call as hist records it: the method, its arguments (those it has not are
\* at the values below) and the state it began in
Call(name, j, frame, recursive, pose, keep) ==
    [name |-> name, joint |-> j, frame |-> frame, recursive |-> recursive,
     pose |-> pose, keep |-> keep, ref |-> NoRef, pre |-> State]

LastOf(h, n) == IF Len(h) <= n THEN h ELSE SubSeq(h, Len(h) - n + 1, Len(h))

\* One call: the joints' state becomes s.  run.limit bounds the calls of the
\* run, run.depth is the number of calls hist remembers.
Step(run, call, s) ==
    /\ steps < run.limit
    /\ steps' = steps + 1
    /\ hist' = LastOf(Append(hist, call), run.depth)
    /\ Becomes(s)
    /\ UNCHANGED Parent

Changes(run, call, s) == Step(run, call, s) /\ UNCHANGED <<retPose, retRange>>

AllKeep == {"position", "rotation", "scale"}

InsertKeyframePose(run, j, frame, pose) ==
    Changes(run, Call("insertKeyframePose", j, frame, FALSE, pose, {}),
            [State EXCEPT !.Keyframes[j] = insertKeyframePose(@, frame, pose)])

RemoveKeyframe(run, j, frame, recursive) ==
    Changes(run, Call("removeKeyframe", j, frame, recursive, DefaultPose, {}),
            removeKeyframe(State, j, frame, recursive))

WriteKeyframe(run, j, frame, recursive) ==
    Changes(run, Call("writeKeyframe", j, frame, recursive, DefaultPose, {}),
            writeKeyframe(State, j, frame, recursive))

LoadKeyframe(run, j, frame, recursive) ==
    Changes(run, Call("loadKeyframe", j, frame, recursive, DefaultPose, {}),
            loadKeyframe(State, j, frame, recursive))

WritePose(run, j, frame, recursive) ==
    Changes(run, Call("writePose", j, frame, recursive, DefaultPose, {}),
            writePose(State, j, frame, recursive))

LoadPose(run, j, frame, recursive) ==
    Changes(run, Call("loadPose", j, frame, recursive, DefaultPose, {}),
            loadPose(State, j, frame, recursive))

LoadRestPose(run, j, recursive) ==
    Changes(run, Call("loadRestPose", j, 0, recursive, DefaultPose, {}),
            loadRestPose(State, j, recursive))

WriteRestPose(run, j, recursive, keep) ==
    Changes(run, Call("writeRestPose", j, 0, recursive, DefaultPose, keep),
            writeRestPose(State, j, recursive, keep))

\* applyRestposePosition(position, recursive); hist keeps the position given
\* as the position of the call's pose
ApplyRestposePosition(run, j, position, recursive) ==
    Changes(run, Call("applyRestposePosition", j, 0, recursive,
                      Pose(position, DefaultPose.Rotation, DefaultPose.Scale), {}),
            applyRestposePosition(State, j, position, recursive))

\* The caller assigns the joint's Position, Rotation and Scale
SetProperties(run, j, pose) ==
    Changes(run, Call("setProperties", j, 0, FALSE, pose, {}),
            [State EXCEPT !.Position[j] = pose.Position,
                          !.Rotation[j] = pose.Rotation,
                          !.Scale[j] = pose.Scale])

GetKeyframePose(run, j, frame) ==
    /\ Step(run, Call("getKeyframePose", j, frame, FALSE, DefaultPose, {}), State)
    /\ retPose' = getKeyframePose(Keyframes[j], frame)
    /\ UNCHANGED retRange

GetKeyframeRange(run, j, includeChildren) ==
    /\ Step(run, Call("getKeyframeRange", j, 0, includeChildren, DefaultPose, {}), State)
    /\ retRange' = getKeyframeRange(State, j, includeChildren)
    /\ UNCHANGED retPose

\* The joints of a joint's subtree, itself included
RECURSIVE InSubtree(_, _)
InSubtree(c, j) == c = j \/ (Parent[c] # NoJoint /\ InSubtree(Parent[c], j))
Subtree(j) == {c \in Joints : InSubtree(c, j)}

\* The caller makes a Pose object and holds it
NewPose(run, pose) ==
    /\ Cardinality(callerPoses) < 2
    /\ LET r == FreeRef(State)
       IN  Changes(run, [Call("Pose", NoJoint, 0, FALSE, pose, {}) EXCEPT !.ref = r],
                   [State EXCEPT !.poses[r] = pose, !.callerPoses = @ \cup {r}])

\* The caller assigns the properties of a Pose object it holds
MutatePose(run, ref, pose) ==
    /\ ref \in callerPoses
    /\ Changes(run, [Call("mutatePose", NoJoint, 0, FALSE, pose, {}) EXCEPT !.ref = ref],
               [State EXCEPT !.poses[ref] = pose])

\* Joint(position, rotation, scale, restPose): ref = NoRef for restPose=None
Construct(run, j, props, ref) ==
    /\ RestPose[j] = NoRef
    /\ ref = NoRef \/ ref \in callerPoses
    /\ Changes(run, [Call("Joint", j, 0, FALSE, props, {}) EXCEPT !.ref = ref],
               JointInit(State, j, props.Position, props.Rotation, props.Scale, ref))

\* joint.RestPose = pose
AssignRestPose(run, j, ref) ==
    /\ RestPose[j] # NoRef
    /\ ref \in callerPoses
    /\ Changes(run, [Call("RestPose", j, 0, FALSE, poses[ref], {}) EXCEPT !.ref = ref],
               SetRestPose(State, j, ref))

\* ------------------------------------------------------------ runs

\* The hierarchies: a chain 1 - 2 - 3 and a root 1 with the children 2 and 3
Chain == (1 :> NoJoint) @@ (2 :> 1) @@ (3 :> 2)
Fan == (1 :> NoJoint) @@ (2 :> 1) @@ (3 :> 1)

\* Sample poses
KeyA == Pose(V3(1, 0, 0), Q4(0, 1, 0, 0), V3(2, 1, 1))
KeyB == Pose(V3(0, 2, 0), Q4(0, 0, 1, 0), V3(1, 1, 3))
KeyC == Pose(V3(0, 1, 4), Q4(0, 0, 0, 1), V3(1, 2, 1))

\* Each joint constructed with Joint(restPose=rest[j]) at the properties
\* props[j], the rest pose objects at the references 1, 2, 3, then given the
\* keyframe lists keys[j]
Constructed(shape, props, rest, keys) ==
    /\ Parent = shape
    /\ Position = [j \in Joints |-> props[j].Position]
    /\ Rotation = [j \in Joints |-> props[j].Rotation]
    /\ Scale = [j \in Joints |-> props[j].Scale]
    /\ RestPose = [j \in Joints |-> j]
    /\ poses = [r \in Refs |-> IF r \in Joints THEN rest[r] ELSE NoPose]
    /\ callerPoses = {}
    /\ Keyframes = keys
    /\ CurrentFrame = [j \in Joints |-> -1]
    /\ retPose = DefaultPose
    /\ retRange = <<0, 0>>
    /\ hist = <<>>
    /\ steps = 0

AllDefault == [j \in Joints |-> DefaultPose]
NoKeyframes == [j \in Joints |-> <<>>]

\* --- the keyframe store: insertKeyframePose, removeKeyframe, getKeyframePose
\* on joints that hold keyframes already

StoreRun == [limit |-> MaxSteps, depth |-> 2]
StoreFrames == {-2, -1, 0, 2, 9}
StoreKeyframes ==
    { NoKeyframes,
      (1 :> << <<1, KeyA>>, <<3, KeyB>> >>) @@ (2 :> << <<7, KeyB>> >>) @@ (3 :> <<>>),
      (1 :> << <<2, KeyA>> >>) @@ (2 :> << <<0, KeyA>>, <<2, KeyB>>, <<5, KeyA>> >>)
          @@ (3 :> << <<1, KeyB>> >>) }

InitStore ==
    \E keys \in StoreKeyframes : Constructed(Chain, AllDefault, AllDefault, keys)

NextStore ==
    \/ \E j \in Joints, f \in StoreFrames : InsertKeyframePose(StoreRun, j, f, KeyC)
    \/ \E j \in Joints, f \in StoreFrames, r \in BOOLEAN : RemoveKeyframe(StoreRun, j, f, r)
    \/ \E j \in Joints, f \in StoreFrames : GetKeyframePose(StoreRun, j, f)

SpecStore == InitStore /\ [][NextStore]_vars

\* --- any sequence of the calls that change a keyframe list, from joints
\* without keyframes.  Every pose written is KeyC (the joints are at KeyC, their
\* rest poses are Pose()), so that the states differ by their frames only.

SortedRun == [limit |-> MaxOps, depth |-> 0]
SortedFrames == {-1, 0, 1, 3}
SortedProps == [j \in Joints |-> KeyC]

InitSorted ==
    \E shape \in {Chain, Fan} : Constructed(shape, SortedProps, AllDefault, NoKeyframes)

NextSorted ==
    \/ \E j \in Joints, f \in SortedFrames : InsertKeyframePose(SortedRun, j, f, KeyC)
    \/ \E j \in Joints, f \in SortedFrames, r \in BOOLEAN : RemoveKeyframe(SortedRun, j, f, r)
    \/ \E j \in Joints, f \in SortedFrames, r \in BOOLEAN : WriteKeyframe(SortedRun, j, f, r)
    \/ \E j \in Joints, f \in SortedFrames, r \in BOOLEAN : WritePose(SortedRun, j, f, r)

SpecSorted == InitSorted /\ [][NextSorted]_vars

\* --- getKeyframeRange on hierarchies whose joints hold keyframes or none

RangeRun == [limit |-> MaxSteps, depth |-> 1]
RangeLists ==
    { <<>>,
      << <<3, KeyA>>, <<7, KeyB>>, <<12, KeyC>> >>,
      << <<5, KeyA>> >>,
      << <<1, KeyB>>, <<20, KeyA>> >> }

InitRange ==
    \E shape \in {Chain, Fan}, keys \in [Joints -> RangeLists] :
        Constructed(shape, AllDefault, AllDefault, keys)

NextRange ==
    \/ \E j \in Joints, c \in BOOLEAN : GetKeyframeRange(RangeRun, j, c)
    \/ \E j \in Joints, f \in {0, 9}, r \in BOOLEAN : RemoveKeyframe(RangeRun, j, f, r)

SpecRange == InitRange /\ [][NextRange]_vars

\* --- the rest pose object: joints constructed with and without a rest pose,
\* the RestPose setter, the caller's own Pose objects

AliasRun == [limit |-> MaxOps, depth |-> 1]

InitAlias ==
    /\ Parent = Fan
    /\ Position = [j \in Joints |-> DefaultPose.Position]
    /\ Rotation = [j \in Joints |-> DefaultPose.Rotation]
    /\ Scale = [j \in Joints |-> DefaultPose.Scale]
    /\ RestPose = [j \in Joints |-> NoRef]
    /\ poses = [r \in Refs |-> NoPose]
    /\ callerPoses = {}
    /\ Keyframes = NoKeyframes
    /\ CurrentFrame = [j \in Joints |-> -1]
    /\ retPose = DefaultPose
    /\ retRange = <<0, 0>>
    /\ hist = <<>>
    /\ steps = 0

NextAlias ==
    \/ \E p \in {KeyA, KeyB} : NewPose(AliasRun, p)
    \/ \E r \in Refs, p \in {KeyB, KeyC} : MutatePose(AliasRun, r, p)
    \/ \E j \in Joints, r \in Refs \cup {NoRef} : Construct(AliasRun, j, KeyC, r)
    \/ \E j \in Joints, r \in Refs : AssignRestPose(AliasRun, j, r)
    \/ \E j \in Joints, k \in {{}, AllKeep} :
           RestPose[j] # NoRef /\ WriteRestPose(AliasRun, j, FALSE, k)
    \/ \E j \in Joints : RestPose[j] # NoRef /\ LoadRestPose(AliasRun, j, FALSE)

SpecAlias == InitAlias /\ [][NextAlias]_vars

\* --- writePose and loadPose on joints with rest poses, properties and
\* keyframes of their own

\* A rational unit quaternion <<w, x, y, z>> / d
QR(w, x, y, z, d) == <<RNorm(w, d), RNorm(x, d), RNorm(y, d), RNorm(z, d)>>

RestA == Pose(V3(1, 0, 2), QR(3, 4, 0, 0, 5), V3(2, 1, 3))
RestB == Pose(V3(0, 3, 0), QR(3, 0, 4, 0, 5), V3(1, 4, 1))
\* a rest pose whose space has no inverse
RestFlat == Pose(V3(1, 1, 0), Q4(1, 0, 0, 0), V3(1, 0, 1))
PropsA == Pose(V3(2, 0, 1), QR(3, 0, 0, 4, 5), V3(1, 2, 2))
PropsB == Pose(V3(0, 1, 1), QR(0, 3, 4, 0, 5), V3(3, 1, 1))

RoundTripRun == [limit |-> MaxSteps, depth |-> 2]
RoundTripFrames == {-1, 2}
RoundTripSetups ==
    { [props |-> (1 :> PropsA) @@ (2 :> PropsB) @@ (3 :> KeyA),
       rest |-> (1 :> RestA) @@ (2 :> RestB) @@ (3 :> DefaultPose),
       keys |-> NoKeyframes],
      [props |-> (1 :> PropsB) @@ (2 :> PropsA) @@ (3 :> PropsA),
       rest |-> (1 :> RestB) @@ (2 :> RestFlat) @@ (3 :> RestA),
       keys |-> (1 :> << <<1, KeyA>>, <<4, KeyB>> >>) @@ (2 :> << <<2, KeyC>> >>)
                @@ (3 :> << <<0, KeyB>>, <<2, KeyA>>, <<3, KeyC>> >>)] }

InitRoundTrip ==
    \E shape \in {Chain, Fan}, u \in RoundTripSetups :
        Constructed(shape, u.props, u.rest, u.keys)

NextRoundTrip ==
    \/ \E j \in Joints, f \in RoundTripFrames, r \in BOOLEAN : WritePose(RoundTripRun, j, f, r)
    \/ \E j \in Joints, f \in RoundTripFrames, r \in BOOLEAN : LoadPose(RoundTripRun, j, f, r)
    \/ \E j \in Joints : SetProperties(RoundTripRun, j, KeyC)

SpecRoundTrip == InitRoundTrip /\ [][NextRoundTrip]_vars

\* --- the rest pose rewritten under keyframes: writeRestPose and
\* applyRestposePosition

RebaseRun == [limit |-> MaxSteps, depth |-> 1]
RebaseSetups ==
    { [props |-> (1 :> PropsA) @@ (2 :> PropsB) @@ (3 :> KeyA),
       rest |-> (1 :> RestA) @@ (2 :> RestB) @@ (3 :> DefaultPose),
       keys |-> (1 :> << <<0, KeyA>>, <<4, KeyB>> >>) @@ (2 :> << <<2, KeyC>> >>)
                @@ (3 :> <<>>)] }

InitRebase ==
    \E shape \in {Chain, Fan}, u \in RebaseSetups :
        Constructed(shape, u.props, u.rest, u.keys)

NextRebase ==
    \/ \E j \in Joints, p \in {PropsB, KeyC} : SetProperties(RebaseRun, j, p)
    \/ \E j \in Joints, r \in BOOLEAN, k \in {{}, {"position"}, AllKeep} :
           WriteRestPose(RebaseRun, j, r, k)
    \/ \E j \in Joints, r \in BOOLEAN : LoadRestPose(RebaseRun, j, r)
    \/ \E j \in Joints, f \in {0, 2, 4}, r \in BOOLEAN : LoadPose(RebaseRun, j, f, r)
    \/ \E j \in Joints, f \in {0, 3}, r \in BOOLEAN : LoadKeyframe(RebaseRun, j, f, r)
    \/ \E j \in Joints, v \in {NoVec, V3(1, 0, 2)}, r \in BOOLEAN :
           ApplyRestposePosition(RebaseRun, j, v, r)

SpecRebase == InitRebase /\ [][NextRebase]_vars

\* ------------------------------------------------------------ properties

\* The last call and the one before it
Last == hist[Len(hist)]
Before == hist[Len(hist) - 1]

\* A joint's position, rotation and scale in a state
Props(s, j) == Pose(s.Position[j], s.Rotation[j], s.Scale[j])

FramesOf(keys) == {keys[i][1] : i \in 1..Len(keys)}

\* The last two calls were name1 and then name2, with one joint and one frame
Pair(name1, name2) ==
    /\ Len(hist) = 2
    /\ Before.name = name1
    /\ Last.name = name2
    /\ Before.joint = Last.joint
    /\ Before.frame = Last.frame

\* C1: from joints without keyframes, after any sequence of insertKeyframePose,
\* writeKeyframe, writePose and removeKeyframe calls, negative frames included,
\* every joint's keyframe list is strictly ascending by frame: sorted, and no
\* frame twice.
KeyframesSorted ==
    \A j \in Joints : \A i \in 1..(Len(Keyframes[j]) - 1) :
        Keyframes[j][i][1] < Keyframes[j][i + 1][1]

\* A joint with three keyframes, the last at a frame only a negative argument
\* gives, and keyframes on its child, which only a recursive call gives
KeyframesSortedWitness ==
    /\ Len(Keyframes[1]) = 3
    /\ Keyframes[1][3][1] = 5
    /\ Len(Keyframes[2]) >= 2

\* C2, as claimed: for every keyframe list and every frame f,
\* insertKeyframePose(f, pose) and then removeKeyframe(f) leave the joint's list
\* as it was before the insert.
InsertThenRemoveRestores ==
    Pair("insertKeyframePose", "removeKeyframe") =>
        Keyframes[Last.joint] = Before.pre.Keyframes[Last.joint]

\* C2, amended: for every frame f >= 0 at which the list holds no keyframe,
\* insertKeyframePose(f, pose) and then removeKeyframe(f) leave the joint's list
\* as it was before the insert.
InsertNewThenRemoveRestores ==
    ( /\ Pair("insertKeyframePose", "removeKeyframe")
      /\ Last.frame >= 0
      /\ Last.frame \notin FramesOf(Before.pre.Keyframes[Last.joint]) ) =>
        Keyframes[Last.joint] = Before.pre.Keyframes[Last.joint]

\* A new frame inserted between two keyframes of a list and removed again
InsertNewThenRemoveWitness ==
    /\ Pair("insertKeyframePose", "removeKeyframe")
    /\ Last.frame >= 0
    /\ Last.frame \notin FramesOf(Before.pre.Keyframes[Last.joint])
    /\ \E a, b \in FramesOf(Before.pre.Keyframes[Last.joint]) : a < Last.frame /\ Last.frame < b

\* C3: insertKeyframePose(f, p) and then getKeyframePose(f) returns a pose with
\* the position, rotation and scale of p, whether f was new, present or
\* negative.
InsertThenGetReturnsPose ==
    Pair("insertKeyframePose", "getKeyframePose") => retPose = Before.pose

\* A pose inserted at a negative frame into a list with keyframes, then read
\* back with the same argument
InsertThenGetWitness ==
    /\ Pair("insertKeyframePose", "getKeyframePose")
    /\ Last.frame < 0
    /\ Len(Before.pre.Keyframes[Last.joint]) >= 2

\* C4, as claimed: a joint's rest pose is never an object the caller supplied
\* and holds.
RestPoseIsOwnObject ==
    \A j \in Joints : RestPose[j] = NoRef \/ RestPose[j] \notin callerPoses

\* C5, as claimed: getKeyframeRange(includeChildren=True) returns the smallest
\* first frame and the largest last frame over the keyframe lists of the joint
\* and its descendants, whichever of them are empty; with includeChildren=False
\* (first, last) of the joint's own list, (0, 0) when that is empty.
SubtreeRange(s, j, includeChildren) ==
    LET among == {c \in (IF includeChildren THEN Subtree(j) ELSE {j}) : s.Keyframes[c] # <<>>}
        first(c) == s.Keyframes[c][1][1]
        last(c) == s.Keyframes[c][Len(s.Keyframes[c])][1]
    IN  IF among = {} THEN <<0, 0>>
        ELSE <<CHOOSE a \in {first(c) : c \in among} : \A c \in among : a <= first(c),
               CHOOSE b \in {last(c) : c \in among} : \A c \in among : b >= last(c)>>

RangeCoversSubtree ==
    (hist # <<>> /\ Last.name = "getKeyframeRange") =>
        retRange = SubtreeRange(Last.pre, Last.joint, Last.recursive)

\* What loadPose(f) makes of joint j in state s
Loaded(s, j, f) == Props(loadPose(s, j, f, FALSE), j)

\* C6, as claimed: after writeRestPose(keep=['position', 'rotation', 'scale']),
\* loadPose(f) at every frame f with a stored keyframe gives the position,
\* rotation and scale it gave before the call.
WriteRestPoseKeepsPoses ==
    (hist # <<>> /\ Last.name = "writeRestPose" /\ Last.keep = AllKeep) =>
        \A f \in FramesOf(Last.pre.Keyframes[Last.joint]) :
            Loaded(State, Last.joint, f) = Loaded(Last.pre, Last.joint, f)

\* The space of a pose has an inverse, and so has its rotation
Invertible(pose) ==
    /\ \A i \in 1..3 : pose.Scale[i][1] # 0
    /\ QDot(pose.Rotation, pose.Rotation)[1] # 0
    /\ \A i, k \in 1..3 : MatInverse(Mat3Cast(pose.Rotation))[i][k][2] # 0

\* C7: writePose(f) and then loadPose(f) leave the position, rotation and scale
\* of a joint with an invertible rest pose as they were before writePose; with
\* recursive=True in both calls, those of every such joint of the subtree.
WritePoseThenLoadPoseRestores ==
    Pair("writePose", "loadPose") =>
        \A c \in (IF Before.recursive /\ Last.recursive THEN Subtree(Last.joint) ELSE {Last.joint}) :
            Invertible(Rest(Before.pre, c)) => Props(State, c) = Props(Before.pre, c)

\* Both calls recursive on the root, at a negative frame, the joints holding
\* keyframes already and being away from their rest poses
WritePoseThenLoadPoseWitness ==
    /\ Pair("writePose", "loadPose")
    /\ Before.recursive /\ Last.recursive
    /\ Last.joint = 1
    /\ Last.frame < 0
    /\ \A c \in {1, 3} : Len(Before.pre.Keyframes[c]) >= 2 /\ Invertible(Rest(Before.pre, c))

\* C8, as claimed: applyRestposePosition on a joint with keyframes rewrites the
\* joint's keyframes with its rest pose, so that loadPose(f) at every frame f
\* with a stored keyframe gives the position, rotation and scale it gave before
\* the call; the keyframes of its children stay as they are.
ApplyRestposePositionKeepsPoses ==
    (hist # <<>> /\ Last.name = "applyRestposePosition") =>
        /\ \A f \in FramesOf(Last.pre.Keyframes[Last.joint]) :
               Loaded(State, Last.joint, f) = Loaded(Last.pre, Last.joint, f)
        /\ \A c \in Joints : Parent[c] = Last.joint => Keyframes[c] = Last.pre.Keyframes[c]

\* C9, as claimed: on a joint whose own list is not empty and ends at frame L, a
\* negative frame -n addresses frame max(0, L + 1 - n), in insertKeyframePose and
\* in getKeyframePose.
NegativeFrameCountsBack ==
    LET keys == Last.pre.Keyframes[Last.joint]
        target == Max(0, keys[Len(keys)][1] + 1 + Last.frame)
    IN  (hist # <<>> /\ Last.frame < 0 /\ Last.pre.Keyframes[Last.joint] # <<>>) =>
            /\ Last.name = "insertKeyframePose" =>
                   Keyframes[Last.joint] = insertKeyframePose(keys, target, Last.pose)
            /\ Last.name = "getKeyframePose" =>
                   retPose = getKeyframePose(keys, target)

\* C10, as claimed: getKeyframePose(f) at a frame f >= 0 outside the stored
\* range returns the pose of the nearest keyframe: the last one's beyond the
\* last frame, the first one's before the first frame.
OutOfRangeTakesNearest ==
    LET keys == Last.pre.Keyframes[Last.joint]
    IN  (hist # <<>> /\ Last.name = "getKeyframePose" /\ Last.frame >= 0 /\ keys # <<>>) =>
            /\ Last.frame > keys[Len(keys)][1] => retPose = keys[Len(keys)][2]
            /\ Last.frame < keys[1][1] => retPose = keys[1][2]

====
